---- MODULE Spec2Model ----
(***************************************************************************)
(* Accounts Receivable Aging & Cash Forecasting System.                    *)
(*                                                                         *)
(* The program is one Streamlit script that is re-run from the top after   *)
(* every widget interaction.  The session state is the widget values       *)
(* (mode, uploaded_file, status_filter, bucket, cash_option, the selected  *)
(* customer) and st.session_state.manual_invoices; `out' is what the last  *)
(* run of the script put on the page.                                      *)
(*                                                                         *)
(* Values.  A cell of a data frame is [k, n, s]: k = "num" (number n),     *)
(* k = "date" (a calendar date, day number n, as ISO text in a file or a   *)
(* datetime.date from the form), k = "text" (string s), k = "null" (NaN /  *)
(* None).  Calendar dates are day numbers counted from Monday 2024-01-01.  *)
(* Money is counted in whole units.  A header is a sequence of characters. *)
(***************************************************************************)
EXTENDS Integers, Sequences, FiniteSets, TLC

VARIABLES mode, uploaded_file, manual_invoices, status_filter, cash_option,
          bucket, selected_customer, today, reingest, out

vars == <<mode, uploaded_file, manual_invoices, status_filter, cash_option,
          bucket, selected_customer, today, reingest, out>>

----------------------------------------------------------------------------
(* Cells *)

Num(n) == [k |-> "num", n |-> n, s |-> ""]
Txt(s) == [k |-> "text", n |-> 0, s |-> s]
DateCell(d) == [k |-> "date", n |-> d, s |-> ""]
NullCell == [k |-> "null", n |-> 0, s |-> ""]

\* pandas NaT, the value errors='coerce' gives an unparseable or missing date
NaT == -1
\* float NaN in the 'Days Outstanding' column (NaT.days)
NaN == -1

Max(a, b) == IF a >= b THEN a ELSE b

\* F(e), with e evaluated once: a local name for an intermediate result
Let(e, F(_)) == CHOOSE r \in {F(v) : v \in {e}} : TRUE

RECURSIVE SumSeq(_)
SumSeq(s) == IF s = <<>> THEN 0 ELSE Head(s) + SumSeq(Tail(s))

----------------------------------------------------------------------------
(* Column Resolver: clean_column, required_columns, standardize_columns *)

UpperToLower ==
  ("A" :> "a") @@ ("B" :> "b") @@ ("C" :> "c") @@ ("D" :> "d") @@ ("E" :> "e") @@
  ("F" :> "f") @@ ("G" :> "g") @@ ("H" :> "h") @@ ("I" :> "i") @@ ("J" :> "j") @@
  ("K" :> "k") @@ ("L" :> "l") @@ ("M" :> "m") @@ ("N" :> "n") @@ ("O" :> "o") @@
  ("P" :> "p") @@ ("Q" :> "q") @@ ("R" :> "r") @@ ("S" :> "s") @@ ("T" :> "t") @@
  ("U" :> "u") @@ ("V" :> "v") @@ ("W" :> "w") @@ ("X" :> "x") @@ ("Y" :> "y") @@
  ("Z" :> "z")

Kept ==
  {"a", "b", "c", "d", "e", "f", "g", "h", "i", "j", "k", "l", "m", "n", "o",
   "p", "q", "r", "s", "t", "u", "v", "w", "x", "y", "z",
   "0", "1", "2", "3", "4", "5", "6", "7", "8", "9", " "}

IsSpace(c) == c \in {" ", "\t", "\n"}

RECURSIVE lstrip(_)
lstrip(s) == IF s = <<>> THEN s
             ELSE IF IsSpace(Head(s)) THEN lstrip(Tail(s)) ELSE s

RECURSIVE rstrip(_)
rstrip(s) == IF s = <<>> THEN s
             ELSE IF IsSpace(s[Len(s)]) THEN rstrip(SubSeq(s, 1, Len(s) - 1))
             ELSE s

strip(s) == rstrip(lstrip(s))

lower(s) == [i \in DOMAIN s |-> IF s[i] \in DOMAIN UpperToLower
                                THEN UpperToLower[s[i]] ELSE s[i]]

\* re.sub(r'[^a-z0-9 ]', '', s)
DeleteOther(s) == SelectSeq(s, LAMBDA c : c \in Kept)

\* re.sub(r'\s+', ' ', s): of every run of whitespace, the first character
\* stays, as a space
CollapseSpaces(s) ==
  Let(SelectSeq([i \in DOMAIN s |-> i],
                LAMBDA i : ~IsSpace(s[i]) \/ i = 1 \/ ~IsSpace(s[i - 1])),
      LAMBDA first : [k \in DOMAIN first |->
                        IF IsSpace(s[first[k]]) THEN " " ELSE s[first[k]]])

clean_column(col_name) ==
  Let(strip(col_name), LAMBDA stripped :
    Let(DeleteOther(lower(stripped)), LAMBDA kept :
      CollapseSpaces(kept)))

customer_name_col == <<"c", "u", "s", "t", "o", "m", "e", "r", " ", "n", "a", "m", "e">>
invoice_number_col == <<"i", "n", "v", "o", "i", "c", "e", " ", "n", "u", "m", "b", "e", "r">>
invoice_date_col == <<"i", "n", "v", "o", "i", "c", "e", " ", "d", "a", "t", "e">>
due_date_col == <<"d", "u", "e", " ", "d", "a", "t", "e">>
amount_col == <<"a", "m", "o", "u", "n", "t">>
payment_date_col == <<"p", "a", "y", "m", "e", "n", "t", " ", "d", "a", "t", "e">>
payment_amount_col == <<"p", "a", "y", "m", "e", "n", "t", " ", "a", "m", "o", "u", "n", "t">>

required_columns ==
  << [canonical |-> customer_name_col,
      aliases |-> << <<"c", "u", "s", "t", "o", "m", "e", "r", " ", "n", "a", "m", "e">>,
                     <<"c", "u", "s", "t", " ", "n", "a", "m", "e">>,
                     <<"c", "l", "i", "e", "n", "t", " ", "n", "a", "m", "e">>,
                     <<"c", "u", "s", "t", "o", "m", "e", "r">> >>],
     [canonical |-> invoice_number_col,
      aliases |-> << <<"i", "n", "v", "o", "i", "c", "e", " ", "n", "u", "m", "b", "e", "r">>,
                     <<"i", "n", "v", "o", "i", "c", "e", " ", "n", "o">>,
                     <<"i", "n", "v", " ", "n", "o">>,
                     <<"v", "e", "n", "d", "o", "r", " ", "n", "a", "m", "e">> >>],
     [canonical |-> invoice_date_col,
      aliases |-> << <<"i", "n", "v", "o", "i", "c", "e", " ", "d", "a", "t", "e">>,
                     <<"i", "n", "v", " ", "d", "a", "t", "e">>,
                     <<"d", "a", "t", "e", " ", "o", "f", " ", "i", "n", "v", "o", "i", "c", "e">>,
                     <<"b", "i", "l", "l", "i", "n", "g", " ", "d", "a", "t", "e">> >>],
     [canonical |-> due_date_col,
      aliases |-> << <<"d", "u", "e", " ", "d", "a", "t", "e">>,
                     <<"p", "a", "y", "m", "e", "n", "t", " ", "d", "u", "e", " ", "d", "a", "t", "e">> >>],
     [canonical |-> amount_col,
      aliases |-> << <<"a", "m", "o", "u", "n", "t">>,
                     <<"i", "n", "v", "o", "i", "c", "e", " ", "a", "m", "o", "u", "n", "t">>,
                     <<"t", "o", "t", "a", "l">> >>],
     [canonical |-> payment_date_col,
      aliases |-> << <<"p", "a", "y", "m", "e", "n", "t", " ", "d", "a", "t", "e">>,
                     <<"p", "a", "i", "d", " ", "d", "a", "t", "e">>,
                     <<"d", "a", "t", "e", " ", "p", "a", "i", "d">>,
                     <<"p", "a", "y", "m", "e", "n", "t", " ", "r", "e", "c", "e", "i", "v", "e", "d">> >>],
     [canonical |-> payment_amount_col,
      aliases |-> << <<"p", "a", "y", "m", "e", "n", "t", " ", "a", "m", "o", "u", "n", "t">>,
                     <<"p", "a", "i", "d", " ", "a", "m", "o", "u", "n", "t">>,
                     <<"a", "m", "o", "u", "n", "t", " ", "p", "a", "i", "d">> >>] >>

Range(s) == {s[i] : i \in DOMAIN s}

\* alias_clean = clean_column(alias), for every alias of every canonical name
alias_clean ==
  [i \in DOMAIN required_columns |->
     [j \in DOMAIN required_columns[i].aliases |->
        clean_column(required_columns[i].aliases[j])]]

\* standardize_columns that tries the first alias of the list only
FirstAliasOnly(aliases, columns) ==
  IF aliases # <<>> /\ Head(aliases) \in columns THEN Head(aliases) ELSE <<>>

\* the inner loop of standardize_columns: the first alias (cleaned) that is a
\* column of the frame, or <<>> when the loop ends without a break
RECURSIVE FirstAliasIn(_, _)
FirstAliasIn(aliases, columns) ==
  IF aliases = <<>> THEN <<>>
  ELSE IF Head(aliases) \in columns THEN Head(aliases)
  ELSE FirstAliasIn(Tail(aliases), columns)

\* rename_map, as a function of the index of the canonical name: the alias
\* that is renamed to it, <<>> if there is none
rename_map(columns) ==
  [i \in DOMAIN required_columns |-> FirstAliasIn(alias_clean[i], Range(columns))]

\* df.rename(columns=rename_map), on the column index
Rename(columns) ==
  Let(rename_map(columns), LAMBDA rm :
    [c \in DOMAIN columns |->
       IF \E i \in DOMAIN rm : rm[i] = columns[c]
       THEN required_columns[CHOOSE i \in DOMAIN rm : rm[i] = columns[c]].canonical
       ELSE columns[c]])

\* standardize_columns(df, required_columns) -> (df, missing)
standardize_columns(df) ==
  Let(Rename(df.columns), LAMBDA cols :
    Let(Range(cols), LAMBDA present :
      [df |-> [columns |-> cols, rows |-> df.rows],
       missing |-> SelectSeq([i \in DOMAIN required_columns |->
                                required_columns[i].canonical],
                             LAMBDA c : c \notin present)]))

\* pd.read_csv / pd.read_excel followed by the header normalisation of line 58
ReadFile(file) ==
  [columns |-> [i \in DOMAIN file.headers |-> clean_column(file.headers[i])],
   rows |-> file.rows]

ColIndex(columns, name) == CHOOSE i \in DOMAIN columns : columns[i] = name

\* the rows of a standardized frame, by canonical column name
Records(df) ==
  [r \in DOMAIN df.rows |->
     [customer_name |-> df.rows[r][ColIndex(df.columns, customer_name_col)],
      invoice_number |-> df.rows[r][ColIndex(df.columns, invoice_number_col)],
      invoice_date |-> df.rows[r][ColIndex(df.columns, invoice_date_col)],
      due_date |-> df.rows[r][ColIndex(df.columns, due_date_col)],
      amount |-> df.rows[r][ColIndex(df.columns, amount_col)],
      payment_date |-> df.rows[r][ColIndex(df.columns, payment_date_col)],
      payment_amount |-> df.rows[r][ColIndex(df.columns, payment_amount_col)]]]

----------------------------------------------------------------------------
(* Record Store and Aging Engine: the type coercion, the derived columns,  *)
(* the status filter and the aging summary                                 *)

\* pd.to_datetime(x, errors='coerce')
to_datetime(cell) == IF cell.k = "date" THEN cell.n ELSE NaT

\* .fillna(0) on the 'payment amount' column
fillna0(cell) == IF cell.k = "null" THEN 0 ELSE cell.n

\* (amount - payment amount).clip(lower=0)
outstanding_amount(amount, payment_amount) == Max(amount - payment_amount, 0)

payment_status(outstanding) == IF outstanding = 0 THEN "Paid" ELSE "Unpaid"

\* "Ensure correct types" and "Calculate outstanding amount": ar_df as it is
\* after the two blocks, one record per row
EnsureTypes(ar_df) ==
  [i \in DOMAIN ar_df |->
     LET r == ar_df[i]
         pa == fillna0(r.payment_amount)
         oa == outstanding_amount(r.amount.n, pa)
     IN [customer_name |-> r.customer_name,
         invoice_number |-> r.invoice_number,
         invoice_date |-> to_datetime(r.invoice_date),
         due_date |-> to_datetime(r.due_date),
         amount |-> r.amount.n,
         payment_date |-> to_datetime(r.payment_date),
         payment_amount |-> pa,
         outstanding_amount |-> oa,
         payment_status |-> payment_status(oa)]]

\* "Apply status filter"
ApplyStatusFilter(df, sf) ==
  IF sf = "Unpaid Only" THEN SelectSeq(df, LAMBDA r : r.payment_status = "Unpaid")
  ELSE IF sf = "Paid Only" THEN SelectSeq(df, LAMBDA r : r.payment_status = "Paid")
  ELSE df

\* (today - due date).dt.days, then the clamp of the negative values to 0;
\* a NaT due date gives NaN, which the clamp leaves alone (NaN < 0 is False)
DaysOutstanding(due, tdy) ==
  IF due = NaT THEN NaN
  ELSE IF tdy - due < 0 THEN 0 ELSE tdy - due

\* aging_category that leaves a NaN day count without one of the four labels
aging_category_nan(days) ==
  IF days = NaN THEN "nan"
  ELSE IF days <= 30 THEN "0-30"
  ELSE IF days <= 60 THEN "31-60"
  ELSE IF days <= 90 THEN "61-90"
  ELSE ">90"

\* aging_category with bounds that are exclusive on the upper end
aging_category_lt(days) ==
  IF days # NaN /\ days < 30 THEN "0-30"
  ELSE IF days # NaN /\ days < 60 THEN "31-60"
  ELSE IF days # NaN /\ days < 90 THEN "61-90"
  ELSE ">90"

\* every comparison with NaN is False
aging_category(days) ==
  IF days # NaN /\ days <= 30 THEN "0-30"
  ELSE IF days # NaN /\ days <= 60 THEN "31-60"
  ELSE IF days # NaN /\ days <= 90 THEN "61-90"
  ELSE ">90"

WithAging(df, tdy) ==
  [i \in DOMAIN df |->
     LET days == DaysOutstanding(df[i].due_date, tdy)
     IN [customer_name |-> df[i].customer_name,
         due_date |-> df[i].due_date,
         payment_date |-> df[i].payment_date,
         payment_amount |-> df[i].payment_amount,
         outstanding_amount |-> df[i].outstanding_amount,
         payment_status |-> df[i].payment_status,
         Days_Outstanding |-> days,
         aging_category |-> aging_category(days)]]

AgingCategories == <<"0-30", "31-60", "61-90", ">90">>

\* groupby('aging category')['outstanding amount'].sum().reindex([...], fill_value=0)
aging_summary(df) ==
  [c \in DOMAIN AgingCategories |->
     [aging_category |-> AgingCategories[c],
      outstanding_amount |->
        SumSeq([i \in DOMAIN df |->
                  IF df[i].aging_category = AgingCategories[c]
                  THEN df[i].outstanding_amount ELSE 0])]]

----------------------------------------------------------------------------
(* Cash Forecast Engine *)

\* create_cash_df without the overwrite of 'Cash Amount' for the paid rows
create_cash_df_nopaid(df, co) ==
  IF co = "Unpaid Only" THEN
    Let(SelectSeq(df, LAMBDA r : r.outstanding_amount > 0), LAMBDA kept :
      [i \in DOMAIN kept |->
         [row |-> kept[i],
          Expected_Payment |-> kept[i].due_date,
          Cash_Amount |-> kept[i].outstanding_amount]])
  ELSE IF co = "Paid Only" THEN
    Let(SelectSeq(df, LAMBDA r : r.outstanding_amount = 0), LAMBDA kept :
      [i \in DOMAIN kept |->
         [row |-> kept[i],
          Expected_Payment |-> kept[i].payment_date,
          Cash_Amount |-> kept[i].payment_amount]])
  ELSE
    [i \in DOMAIN df |->
       [row |-> df[i],
        Expected_Payment |-> IF df[i].payment_date # NaT THEN df[i].payment_date
                             ELSE df[i].due_date,
        Cash_Amount |-> df[i].outstanding_amount]]

\* create_cash_df(df, cash_option)
create_cash_df(df, co) ==
  IF co = "Unpaid Only" THEN
    Let(SelectSeq(df, LAMBDA r : r.outstanding_amount > 0), LAMBDA kept :
      [i \in DOMAIN kept |->
         [row |-> kept[i],
          Expected_Payment |-> kept[i].due_date,
          Cash_Amount |-> kept[i].outstanding_amount]])
  ELSE IF co = "Paid Only" THEN
    Let(SelectSeq(df, LAMBDA r : r.outstanding_amount = 0), LAMBDA kept :
      [i \in DOMAIN kept |->
         [row |-> kept[i],
          Expected_Payment |-> kept[i].payment_date,
          Cash_Amount |-> kept[i].payment_amount]])
  ELSE
    [i \in DOMAIN df |->
       [row |-> df[i],
        Expected_Payment |-> IF df[i].payment_date # NaT THEN df[i].payment_date
                             ELSE df[i].due_date,
        Cash_Amount |-> IF df[i].outstanding_amount = 0 THEN df[i].payment_amount
                        ELSE df[i].outstanding_amount]]

\* first days of the months from January 2024 on, as day numbers
MonthStarts == <<0, 31, 60, 91, 121, 152, 182, 213, 244, 274, 305, 335, 366>>

\* .dt.to_period('M').dt.start_time
MonthStart(d) ==
  Let({MonthStarts[i] : i \in {j \in DOMAIN MonthStarts : MonthStarts[j] <= d}},
      LAMBDA below : CHOOSE m \in below : \A x \in below : x <= m)

\* .dt.to_period('W').dt.start_time: weeks run Monday to Sunday, day 0 is a Monday
WeekStart(d) == d - (d % 7)

BucketDate(d, b) ==
  IF d = NaT THEN NaT
  ELSE IF b = "Weekly" THEN WeekStart(d)
  ELSE IF b = "Monthly" THEN MonthStart(d)
  ELSE d

RECURSIVE SortedSeq(_)
SortedSeq(S) ==
  IF S = {} THEN <<>>
  ELSE LET m == CHOOSE x \in S : \A y \in S : x <= y
       IN <<m>> \o SortedSeq(S \ {m})

\* groupby('Bucket Date')['Cash Amount'].sum().reset_index().sort_values('Bucket Date');
\* groupby leaves out the rows whose key is NaT (dropna=True is its default)
cash_forecast(cdf, b) ==
  Let([i \in DOMAIN cdf |-> BucketDate(cdf[i].Expected_Payment, b)], LAMBDA bucket_date :
    Let(SortedSeq(Range(bucket_date) \ {NaT}), LAMBDA keys :
      [k \in DOMAIN keys |->
         [Bucket_Date |-> keys[k],
          Cash_Amount |->
            SumSeq([i \in DOMAIN cdf |->
                      IF bucket_date[i] = keys[k] THEN cdf[i].Cash_Amount ELSE 0])]]))

\* filtered_df['customer name'].dropna().unique()
RECURSIVE Unique(_)
Unique(s) ==
  IF s = <<>> THEN <<>>
  ELSE LET rest == Unique(SubSeq(s, 1, Len(s) - 1))
           x == s[Len(s)]
       IN IF x \in Range(rest) THEN rest ELSE Append(rest, x)

customers(df) ==
  Let(SelectSeq(df, LAMBDA r : r.customer_name.k # "null"), LAMBDA named :
    Unique([i \in DOMAIN named |-> named[i].customer_name.s]))

----------------------------------------------------------------------------
(* One run of the script, from the top to the end or to the first st.stop() *)

ModeUpload == "Upload CSV/Excel"
ModeManual == "Enter Manually"

StatusFilters == {"All", "Unpaid Only", "Paid Only"}
CashOptions == {"Unpaid Only", "Paid Only", "Both Paid and Unpaid"}
Buckets == {"Daily", "Weekly", "Monthly"}

\* the keys of invoice_dict, which are the columns of manual_df
ManualColumns ==
  <<customer_name_col, invoice_number_col, invoice_date_col, due_date_col,
    amount_col, payment_date_col, payment_amount_col>>

\* the second column check, on the combined frame
required_cols ==
  <<customer_name_col, invoice_number_col, invoice_date_col, due_date_col,
    amount_col, payment_date_col>>

\* what a run leaves on the page when it produces no report at all
Blank(outcome, messages, missing, ar_df) ==
  [outcome |-> outcome, messages |-> messages, missing |-> missing,
   ar_df |-> ar_df, filtered_df |-> <<>>, aging_summary |-> <<>>,
   cash_df |-> <<>>, cash_forecast |-> <<>>, customers |-> <<>>,
   selected |-> "", customer_aging |-> <<>>, customer_cf |-> <<>>,
   total_outstanding |-> 0, total_expected_cash |-> 0, produced |-> {},
   form |-> <<>>]

\* the customer section: the select box, the customer's aging summary and
\* the customer's cash forecast, or the note that there is none
CustomerSection(filtered_df, co, b, sel) ==
  Let(customers(filtered_df), LAMBDA custs :
    IF custs = <<>>
    THEN [customers |-> custs, selected |-> "", customer_aging |-> <<>>,
          customer_cf |-> <<>>, messages |-> {}, produced |-> {}]
    ELSE
      Let(IF sel \in Range(custs) THEN sel ELSE custs[1], LAMBDA selected :
        Let(SelectSeq(filtered_df, LAMBDA r : r.customer_name.k = "text"
                                              /\ r.customer_name.s = selected),
            LAMBDA customer_df :
          Let(create_cash_df(customer_df, co), LAMBDA customer_cash_df :
            [customers |-> custs,
             selected |-> selected,
             customer_aging |-> aging_summary(customer_df),
             customer_cf |-> IF customer_cash_df # <<>>
                             THEN cash_forecast(customer_cash_df, b) ELSE <<>>,
             messages |-> IF customer_cash_df # <<>> THEN {}
                          ELSE {"info: no cash forecast data for this customer"},
             produced |-> IF customer_cash_df # <<>>
                          THEN {"customer_aging", "customer_cf"}
                          ELSE {"customer_aging"}]))))

\* section 5 of the script, entered with a non-empty ar_df that has its columns
Report(ar_df, sf, co, b, sel, tdy, messages) ==
  Let(EnsureTypes(ar_df), LAMBDA typed :
  Let(ApplyStatusFilter(typed, sf), LAMBDA kept :
  Let(WithAging(kept, tdy), LAMBDA filtered_df :
    Let(create_cash_df(filtered_df, co), LAMBDA cash_df :
      IF cash_df = <<>>
      THEN \* st.warning(...); st.stop()
           [Blank("empty_forecast",
                  messages \cup {"warning: no invoices for cash forecast"}, <<>>, ar_df)
              EXCEPT !.filtered_df = filtered_df,
                     !.aging_summary = aging_summary(filtered_df),
                     !.produced = {"aging_summary"}]
      ELSE
        Let(cash_forecast(cash_df, b), LAMBDA forecast :
          Let(CustomerSection(filtered_df, co, b, sel), LAMBDA cs :
            [outcome |-> "ok",
             messages |-> messages \cup cs.messages,
             missing |-> <<>>,
             ar_df |-> ar_df,
             filtered_df |-> filtered_df,
             aging_summary |-> aging_summary(filtered_df),
             cash_df |-> cash_df,
             cash_forecast |-> forecast,
             customers |-> cs.customers,
             selected |-> cs.selected,
             customer_aging |-> cs.customer_aging,
             customer_cf |-> cs.customer_cf,
             total_outstanding |->
               SumSeq([i \in DOMAIN filtered_df |-> filtered_df[i].outstanding_amount]),
             total_expected_cash |->
               SumSeq([i \in DOMAIN forecast |-> forecast[i].Cash_Amount]),
             produced |-> {"aging_summary", "cash_forecast", "total_outstanding",
                           "total_expected_cash", "export_full", "export_aging",
                           "export_cash"} \cup cs.produced,
             form |-> <<>>]))))))

\* the concatenation with the manual frame in front
Combine_manual_first(has_file, uploaded, manual) ==
  IF manual # <<>>
  THEN (IF has_file THEN manual \o uploaded ELSE manual)
  ELSE uploaded

\* section 4 of the script: ar_df = None; the uploaded frame; the manual frame
\* appended to it, or alone
Combine(has_file, uploaded, manual) ==
  IF manual # <<>>
  THEN (IF has_file THEN uploaded \o manual ELSE manual)
  ELSE uploaded

\* the script after the upload section: sections 4 and 5
AfterUpload(has_file, df, mi, sf, co, b, sel, tdy, messages) ==
  Let(Combine(has_file, IF has_file THEN Records(df) ELSE <<>>, mi), LAMBDA ar_df :
    Let((IF has_file THEN df.columns ELSE <<>>)
          \o (IF mi # <<>> THEN ManualColumns ELSE <<>>), LAMBDA columns :
      IF (~has_file /\ mi = <<>>) \/ ar_df = <<>>
      THEN Blank("no_data", messages, <<>>, <<>>)
      ELSE Let(SelectSeq(required_cols, LAMBDA c : c \notin Range(columns)),
               LAMBDA missing_cols :
             IF missing_cols # <<>>
             THEN Blank("schema_error",
                        messages \cup {"error: uploaded file is missing required columns"},
                        missing_cols, ar_df)
             ELSE Report(ar_df, sf, co, b, sel, tdy, messages))))

\* the whole script. m, uf, mi, sf, co, b, sel are the widget values and the
\* session list the run reads; messages are those the form has already shown
RunPass(m, uf, mi, sf, co, b, sel, tdy, messages) ==
  IF m = ModeUpload /\ uf # <<>>
  THEN Let(ReadFile(uf[1]), LAMBDA df :
       Let(standardize_columns(df), LAMBDA std :
         IF std.missing # <<>>
         THEN \* st.error(...); st.stop()
              Blank("schema_error",
                    messages \cup {"error: uploaded file is missing required columns"},
                    std.missing, <<>>)
         ELSE AfterUpload(TRUE, std.df, mi, sf, co, b, sel, tdy, messages)))
  ELSE \* uploaded_file is None
       AfterUpload(FALSE, <<>>, mi, sf, co, b, sel, tdy, messages)

\* ar_df.to_csv(index=False) of a run, as pd.read_csv reads it back: ar_df has
\* its dates coerced and its two derived columns by then. A Timestamp is
\* written as ISO text, NaT and NaN as the empty field, which reads as NaN
\* an export that writes its dates day first, which do not parse on the way back
CsvDate_day_first(d) == IF d = NaT THEN NullCell ELSE Txt("31/01/2024")

CsvDate(d) == IF d = NaT THEN NullCell ELSE DateCell(d)

outstanding_amount_col == <<"o", "u", "t", "s", "t", "a", "n", "d", "i", "n", "g", " ", "a", "m", "o", "u", "n", "t">>
payment_status_col == <<"p", "a", "y", "m", "e", "n", "t", " ", "s", "t", "a", "t", "u", "s">>

full_invoices_csv(ar_df) ==
  Let(EnsureTypes(ar_df), LAMBDA typed :
     [headers |-> ManualColumns \o <<outstanding_amount_col, payment_status_col>>,
      rows |-> [i \in DOMAIN typed |->
                  <<typed[i].customer_name,
                    typed[i].invoice_number,
                    CsvDate(typed[i].invoice_date),
                    CsvDate(typed[i].due_date),
                    Num(typed[i].amount),
                    CsvDate(typed[i].payment_date),
                    Num(typed[i].payment_amount),
                    Num(typed[i].outstanding_amount),
                    Txt(typed[i].payment_status)>>]])

----------------------------------------------------------------------------
(* Inputs: the files a user may choose and the values a form may hold *)

\* the length of the manual list at which the form is no longer submitted
MaxManual == 2
\* the largest number of rows of a file of the catalogue
MaxFileRows == 1
\* the largest table whose export is uploaded again
MaxExportRows == 2
\* the largest number of rows of a table of the pipeline inputs
MaxRows == 2
\* date.today() of the session, as a day number (2024-05-01)
Today0 == 121
\* the latest due date of the aging inputs
MaxDay == 130

SeqsUpTo(S, n) == UNION {[1..k -> S] : k \in 0..n}

Layout(headers, fields) ==
  [i \in DOMAIN headers |-> [header |-> headers[i], field |-> fields[i]]]

CanonicalFields ==
  <<"customer_name", "invoice_number", "invoice_date", "due_date", "amount",
    "payment_date", "payment_amount">>

LayoutCanonical == Layout(ManualColumns, CanonicalFields)

\* aliases in another order, with capitals, punctuation, outer and doubled
\* spaces, and a column the program does not know
LayoutAliased ==
  Layout(<< <<" ", "D", "u", "e", " ", " ", "D", "a", "t", "e", " ">>,
            <<"C", "l", "i", "e", "n", "t", " ", "N", "a", "m", "e">>,
            <<"N", "o", "t", "e", "s">>,
            <<"V", "e", "n", "d", "o", "r", " ", "N", "a", "m", "e">>,
            <<"I", "n", "v", ".", " ", "D", "a", "t", "e">>,
            <<"T", "O", "T", "A", "L">>,
            <<"D", "a", "t", "e", " ", "P", "a", "i", "d">>,
            <<"A", "m", "o", "u", "n", "t", " ", "P", "a", "i", "d">> >>,
         <<"due_date", "customer_name", "notes", "invoice_number", "invoice_date",
           "amount", "payment_date", "payment_amount">>)

\* no payment columns
LayoutNoPayment ==
  Layout(<< <<"C", "u", "s", "t", "o", "m", "e", "r">>,
            <<"I", "n", "v", "o", "i", "c", "e", " ", "N", "o">>,
            <<"I", "n", "v", "o", "i", "c", "e", " ", "D", "a", "t", "e">>,
            <<"D", "u", "e", " ", "D", "a", "t", "e">>,
            <<"A", "m", "o", "u", "n", "t">> >>,
         <<"customer_name", "invoice_number", "invoice_date", "due_date", "amount">>)

\* "Amount_Paid": the underscore is deleted, not turned into a space
LayoutUnderscore ==
  Layout(<< customer_name_col, invoice_number_col, invoice_date_col, due_date_col,
            amount_col, payment_date_col,
            <<"A", "m", "o", "u", "n", "t", "_", "P", "a", "i", "d">> >>,
         CanonicalFields)

\* "- Customer": the space after the deleted dash stays in front
LayoutLeadingDash ==
  Layout(<< <<"-", " ", "C", "u", "s", "t", "o", "m", "e", "r">>,
            invoice_number_col, invoice_date_col, due_date_col,
            amount_col, payment_date_col, payment_amount_col >>,
         CanonicalFields)

MakeFile(layout, recs) ==
  [headers |-> [i \in DOMAIN layout |-> layout[i].header],
   rows |-> [r \in DOMAIN recs |->
               [i \in DOMAIN layout |->
                  IF layout[i].field \in DOMAIN recs[r]
                  THEN recs[r][layout[i].field] ELSE Txt("memo")]]]

Invoice(cn, inum, idate, ddate, amt, pdate, pamt) ==
  [customer_name |-> cn, invoice_number |-> inum, invoice_date |-> idate,
   due_date |-> ddate, amount |-> amt, payment_date |-> pdate,
   payment_amount |-> pamt]

\* rows of the catalogue: an unpaid invoice due 40 days ago, and an invoice
\* paid in full whose payment date was left blank, due 10 days ago
CatalogueRows ==
  {Invoice(Txt("Bolt"), Txt("INV-7"), DateCell(Today0 - 70), DateCell(Today0 - 40),
           Num(100), NullCell, NullCell),
   Invoice(Txt("Acme"), Txt("INV-8"), DateCell(Today0 - 40), DateCell(Today0 - 10),
           Num(100), NullCell, Num(100))}

Catalogue ==
  {MakeFile(l, recs) : l \in {LayoutCanonical, LayoutAliased},
                       recs \in SeqsUpTo(CatalogueRows, MaxFileRows)}
  \cup {MakeFile(l, recs) : l \in {LayoutNoPayment, LayoutUnderscore, LayoutLeadingDash},
                            recs \in [1..1 -> CatalogueRows]}

\* the values of the form
FormNames == {"", "Acme"}
FormNumbers == {"", "INV-1"}
FormInvoiceDates == {Today0 - 30}
FormDueDates == {Today0 - 31, Today0 - 5}
FormAmounts == {100}
FormPaymentAmounts == {40, 100}

\* rows of the pipeline inputs. Due on Wednesday 31 January, on Thursday
\* 1 February, or unparseable; unpaid, partly paid on Wednesday 3 January,
\* paid in full without payment date, or paid in full on 3 January
PipelineRows ==
  {Invoice(Txt("Acme"), Txt("INV-1"), DateCell(1), due, Num(100), p[1], p[2]) :
     due \in {Txt("n/a"), DateCell(30), DateCell(31)},
     p \in {<<NullCell, NullCell>>, <<DateCell(2), Num(40)>>,
            <<NullCell, Num(100)>>, <<DateCell(2), Num(100)>>}}

\* one unpaid row, due on any day up to MaxDay
AgingRows ==
  {Invoice(Txt("Acme"), Txt("INV-1"), DateCell(0), DateCell(d), Num(100), NullCell, NullCell) :
     d \in 0..MaxDay}

----------------------------------------------------------------------------
(* The session: every interaction changes widget values or the manual list *)
(* and runs the script                                                     *)

\* A widget the run does not reach is not drawn and loses its value: the
\* next run that draws it starts from its first option. form is <<>>, or the
\* values of the form whose button started the run
Rerun(m, uf, mi, sf, co, b, sel, messages, form, snapshot) ==
  /\ mode' = m
  /\ uploaded_file' = uf
  /\ manual_invoices' = mi
  /\ today' = today
  /\ reingest' = snapshot
  /\ \E o \in {RunPass(m, uf, mi, sf, co, b, sel, today, messages)} :
       \E drawn \in {o.outcome \in {"ok", "empty_forecast"}} :
         /\ status_filter' = (IF drawn THEN sf ELSE "All")
         /\ cash_option' = (IF drawn THEN co ELSE "Unpaid Only")
         /\ bucket' = (IF drawn THEN b ELSE "Daily")
         /\ selected_customer' = o.selected
         /\ out' = [o EXCEPT !.form = form]

\* the st.success of the upload section, shown by every run that has a file
UploadMessages(uf) == IF uf # <<>> THEN {"success: file uploaded"} ELSE {}

Init ==
  /\ mode = ModeUpload
  /\ uploaded_file = <<>>
  /\ manual_invoices = <<>>
  /\ status_filter = "All"
  /\ cash_option = "Unpaid Only"
  /\ bucket = "Daily"
  /\ selected_customer = ""
  /\ today = Today0
  /\ reingest = <<>>
  /\ out = RunPass(ModeUpload, <<>>, <<>>, "All", "Unpaid Only", "Daily", "", Today0, {})

\* the radio "How do you like to input invoices?"; the file uploader is drawn
\* in upload mode only
SetMode ==
  \E m \in {ModeUpload, ModeManual} :
    /\ m # mode
    /\ Rerun(m, <<>>, manual_invoices, status_filter, cash_option, bucket,
             selected_customer, {}, <<>>, <<>>)

ChooseFile ==
  \E f \in Catalogue :
    /\ mode = ModeUpload
    /\ uploaded_file # <<f>>
    /\ Rerun(mode, <<f>>, manual_invoices, status_filter, cash_option, bucket,
             selected_customer, UploadMessages(<<f>>), <<>>, <<>>)

RemoveFile ==
  /\ mode = ModeUpload
  /\ uploaded_file # <<>>
  /\ Rerun(mode, <<>>, manual_invoices, status_filter, cash_option, bucket,
           selected_customer, {}, <<>>, <<>>)

\* "Download Full Invoices CSV", and the downloaded file chosen as the upload
ReuploadExport ==
  /\ mode = ModeUpload
  /\ "export_full" \in out.produced
  /\ Len(out.ar_df) <= MaxExportRows
  /\ \E f \in {full_invoices_csv(out.ar_df)} :
       Rerun(mode, <<f>>, manual_invoices, status_filter, cash_option, bucket,
             selected_customer, UploadMessages(<<f>>), <<>>,
             <<[aging_summary |-> out.aging_summary,
                cash_forecast |-> out.cash_forecast]>>)

SetStatusFilter ==
  \E sf \in StatusFilters :
    /\ out.outcome \in {"ok", "empty_forecast"}
    /\ sf # status_filter
    /\ Rerun(mode, uploaded_file, manual_invoices, sf, cash_option, bucket,
             selected_customer, UploadMessages(uploaded_file), <<>>, <<>>)

SetCashOption ==
  \E co \in CashOptions :
    /\ out.outcome \in {"ok", "empty_forecast"}
    /\ co # cash_option
    /\ Rerun(mode, uploaded_file, manual_invoices, status_filter, co, bucket,
             selected_customer, UploadMessages(uploaded_file), <<>>, <<>>)

SetBucket ==
  \E b \in Buckets :
    /\ out.outcome \in {"ok", "empty_forecast"}
    /\ b # bucket
    /\ Rerun(mode, uploaded_file, manual_invoices, status_filter, cash_option, b,
             selected_customer, UploadMessages(uploaded_file), <<>>, <<>>)

SelectCustomer ==
  \E c \in Range(out.customers) :
    /\ out.outcome = "ok"
    /\ c # selected_customer
    /\ Rerun(mode, uploaded_file, manual_invoices, status_filter, cash_option, bucket,
             c, UploadMessages(uploaded_file), <<>>, <<>>)

\* the form without its check of the two dates
FormError_no_dates(customer_name, invoice_number, invoice_date, due_date) ==
  IF customer_name = "" \/ invoice_number = ""
  THEN "error: Customer Name and Invoice Number are required."
  ELSE ""

\* the two checks of the form: the error shown, "" if the entry is accepted
FormError(customer_name, invoice_number, invoice_date, due_date) ==
  IF customer_name = "" \/ invoice_number = ""
  THEN "error: Customer Name and Invoice Number are required."
  ELSE IF due_date < invoice_date
  THEN "error: Due Date cannot be before Invoice Date."
  ELSE ""

\* "Add Invoice Data": the form of manual mode, its checks, the append and
\* st.rerun(); a rejected submission goes on to the report of the same run
Submit ==
  \E customer_name \in FormNames, invoice_number \in FormNumbers,
     invoice_date \in FormInvoiceDates, due_date \in FormDueDates,
     amount \in FormAmounts,
     payment \in {<<NullCell, 0>>} \cup {<<DateCell(today), a>> : a \in FormPaymentAmounts} :
    \E error \in {FormError(customer_name, invoice_number, invoice_date, due_date)},
       form \in {<<[customer_name |-> customer_name, invoice_number |-> invoice_number,
                    invoice_date |-> invoice_date, due_date |-> due_date]>>} :
      /\ mode = ModeManual
      /\ IF error # ""
         THEN Rerun(mode, uploaded_file, manual_invoices, status_filter, cash_option,
                    bucket, selected_customer, {error}, form, <<>>)
         ELSE /\ Len(manual_invoices) < MaxManual
              /\ Rerun(mode, uploaded_file,
                       Append(manual_invoices,
                              Invoice(Txt(customer_name), Txt(invoice_number),
                                      DateCell(invoice_date), DateCell(due_date),
                                      Num(amount), payment[1], Num(payment[2]))),
                       status_filter, cash_option, bucket, selected_customer, {},
                       form, <<>>)

Next ==
  \/ SetMode
  \/ ChooseFile
  \/ RemoveFile
  \/ ReuploadExport
  \/ SetStatusFilter
  \/ SetCashOption
  \/ SetBucket
  \/ SelectCustomer
  \/ Submit

Spec == Init /\ [][Next]_vars

----------------------------------------------------------------------------
(* The pipeline on its own: a table is uploaded under canonical headers and *)
(* the three selections of the report are changed                           *)

InitPipeline ==
  \E recs \in SeqsUpTo(PipelineRows, MaxRows) \cup [1..1 -> AgingRows] :
    /\ mode = ModeUpload
    /\ uploaded_file = <<MakeFile(LayoutCanonical, recs)>>
    /\ manual_invoices = <<>>
    /\ status_filter = "All"
    /\ cash_option = "Unpaid Only"
    /\ bucket = "Daily"
    /\ selected_customer = IF recs = <<>> THEN "" ELSE "Acme"
    /\ today = Today0
    /\ reingest = <<>>
    /\ out = RunPass(ModeUpload, <<MakeFile(LayoutCanonical, recs)>>, <<>>, "All",
                     "Unpaid Only", "Daily", "", Today0, {"success: file uploaded"})

NextPipeline ==
  \/ SetStatusFilter
  \/ SetCashOption
  \/ SetBucket

SpecPipeline == InitPipeline /\ [][NextPipeline]_vars

----------------------------------------------------------------------------
(* Properties *)

CashTotal(rows) == SumSeq([i \in DOMAIN rows |-> rows[i].Cash_Amount])

Reported == out.outcome \in {"ok", "empty_forecast"}

\* C1: the bucket sums of the portfolio cash forecast add up to the sum of
\* cash_amount over the rows the cash policy keeps, and total_expected_cash
\* is that sum, also when a kept row has no expected payment date
C1_ForecastTotalIsRowTotal ==
  out.outcome = "ok" =>
    /\ CashTotal(out.cash_forecast) = CashTotal(out.cash_df)
    /\ out.total_expected_cash = CashTotal(out.cash_df)

\* the outstanding amount and the status filter, read off the working set
RawOutstanding(r) ==
  Max(r.amount.n - (IF r.payment_amount.k = "null" THEN 0 ELSE r.payment_amount.n), 0)

KeptByStatus(r, sf) ==
  \/ sf = "All"
  \/ sf = "Unpaid Only" /\ RawOutstanding(r) > 0
  \/ sf = "Paid Only" /\ RawOutstanding(r) = 0

\* C2: the four aging sums are non-negative, they add up to the total
\* outstanding amount of the rows the status filter keeps, and every such row
\* (null or future due date included) is in exactly one of the four buckets
C2_AgingSumsTotal ==
  Reported =>
    /\ Len(out.aging_summary) = 4
    /\ \A c \in DOMAIN out.aging_summary : out.aging_summary[c].outstanding_amount >= 0
    /\ SumSeq([c \in DOMAIN out.aging_summary |-> out.aging_summary[c].outstanding_amount])
         = SumSeq([i \in DOMAIN out.ar_df |->
                     IF KeptByStatus(out.ar_df[i], status_filter)
                     THEN RawOutstanding(out.ar_df[i]) ELSE 0])
    /\ \A i \in DOMAIN out.filtered_df :
         Cardinality({c \in DOMAIN out.aging_summary :
                        out.aging_summary[c].aging_category
                          = out.filtered_df[i].aging_category}) = 1

\* an unpaid row without due date next to an unpaid row with one, under the
\* status filter 'Unpaid Only'
C2_Witness ==
  /\ out.outcome = "ok"
  /\ status_filter = "Unpaid Only"
  /\ \E i, j \in DOMAIN out.filtered_df :
       /\ out.filtered_df[i].due_date = NaT
       /\ out.filtered_df[j].due_date # NaT
       /\ out.filtered_df[i].outstanding_amount > 0
       /\ out.filtered_df[j].outstanding_amount > 0

\* the headers of a file after normalisation, and the canonical fields none of
\* whose aliases is among them
NormalizedHeaders(file) == {clean_column(file.headers[i]) : i \in DOMAIN file.headers}

Unmatched(file) ==
  Let(NormalizedHeaders(file), LAMBDA hs :
    {i \in DOMAIN required_columns : Range(required_columns[i].aliases) \cap hs = {}})

C4_ManualEntry ==
  [][/\ Len(manual_invoices') >= Len(manual_invoices)
     /\ SubSeq(manual_invoices', 1, Len(manual_invoices)) = manual_invoices
     /\ out'.form = <<>> => manual_invoices' = manual_invoices
     /\ out'.form # <<>> =>
          IF \/ out'.form[1].customer_name = ""
             \/ out'.form[1].invoice_number = ""
             \/ out'.form[1].due_date < out'.form[1].invoice_date
          THEN /\ manual_invoices' = manual_invoices
               /\ \E msg \in out'.messages :
                    msg \in {"error: Customer Name and Invoice Number are required.",
                             "error: Due Date cannot be before Invoice Date."}
          ELSE /\ Len(manual_invoices') = Len(manual_invoices) + 1
               /\ manual_invoices'[Len(manual_invoices')].customer_name
                    = Txt(out'.form[1].customer_name)
               /\ manual_invoices'[Len(manual_invoices')].invoice_number
                    = Txt(out'.form[1].invoice_number)
               /\ manual_invoices'[Len(manual_invoices')].due_date
                    = DateCell(out'.form[1].due_date)]_vars

\* a form with both names and a due date before the invoice date was
\* submitted while the list had an entry
C4_Witness ==
  /\ out.form # <<>>
  /\ out.form[1].customer_name # ""
  /\ out.form[1].invoice_number # ""
  /\ out.form[1].due_date < out.form[1].invoice_date
  /\ manual_invoices # <<>>

FieldCell(file, r, canonical) ==
  Let(CHOOSE i \in DOMAIN required_columns : required_columns[i].canonical = canonical,
      LAMBDA i :
        file.rows[r][CHOOSE c \in DOMAIN file.headers :
                       clean_column(file.headers[c]) \in Range(required_columns[i].aliases)])

FileRecords(file) ==
  [r \in DOMAIN file.rows |->
     Invoice(FieldCell(file, r, customer_name_col), FieldCell(file, r, invoice_number_col),
             FieldCell(file, r, invoice_date_col), FieldCell(file, r, due_date_col),
             FieldCell(file, r, amount_col), FieldCell(file, r, payment_date_col),
             FieldCell(file, r, payment_amount_col))]

C6_WorkingSet ==
  out.outcome # "schema_error" =>
    Let(IF uploaded_file = <<>> THEN <<>> ELSE FileRecords(uploaded_file[1]),
        LAMBDA uploaded :
          /\ out.outcome = "no_data" <=> (uploaded = <<>> /\ manual_invoices = <<>>)
          /\ out.outcome # "no_data" => out.ar_df = uploaded \o manual_invoices
          /\ "error: uploaded file is missing required columns" \notin out.messages)

\* C6: the working set of a run is the rows of the selected file, if any,
\* followed by the manual records in entry order; the run has no data, and
\* shows no error for it, exactly when both are empty; a step that changes the
\* selected file leaves the manual list as it is
C6_WorkingSetIsUploadThenManual ==
  /\ []C6_WorkingSet
  /\ [][uploaded_file' # uploaded_file => manual_invoices' = manual_invoices]_vars

\* a file with a row is selected while the manual list has two entries
C6_Witness ==
  /\ mode = ModeUpload
  /\ uploaded_file # <<>>
  /\ Len(uploaded_file[1].rows) = 1
  /\ Len(manual_invoices) = 2
  /\ Len(out.ar_df) = 3

ExpectedCategory(days) ==
  IF days \in 0..30 THEN "0-30"
  ELSE IF days \in 31..60 THEN "31-60"
  ELSE IF days \in 61..90 THEN "61-90"
  ELSE ">90"

\* C7: days_outstanding of a row is max(0, today - due_date); its category is
\* '0-30' up to 30 days, '31-60' for 31..60, '61-90' for 61..90, '>90'
\* otherwise; a due date in the future gives 0 days and '0-30', a due date 40
\* days ago '31-60' and one 10 days ago '0-30'
C7_DaysAndCategory ==
  \A i \in DOMAIN out.filtered_df :
    /\ out.filtered_df[i].due_date # NaT =>
         out.filtered_df[i].Days_Outstanding = Max(0, today - out.filtered_df[i].due_date)
    /\ out.filtered_df[i].aging_category
         = ExpectedCategory(out.filtered_df[i].Days_Outstanding)
    /\ (out.filtered_df[i].due_date # NaT /\ out.filtered_df[i].due_date > today) =>
         /\ out.filtered_df[i].Days_Outstanding = 0
         /\ out.filtered_df[i].aging_category = "0-30"
    /\ out.filtered_df[i].due_date = today - 40 =>
         out.filtered_df[i].aging_category = "31-60"
    /\ out.filtered_df[i].due_date = today - 10 =>
         out.filtered_df[i].aging_category = "0-30"

\* a row that is due in the future
C7_Witness ==
  \E i \in DOMAIN out.filtered_df :
    /\ out.filtered_df[i].due_date > today
    /\ out.filtered_df[i].Days_Outstanding = 0
    /\ out.filtered_df[i].aging_category = "0-30"

\* C8: 'Unpaid Only' keeps the rows with outstanding > 0, dated at the due date
\* with the outstanding amount; 'Paid Only' keeps the rows with outstanding = 0,
\* dated at the payment date with the payment amount; 'Both Paid and Unpaid'
\* keeps every row, dated at the payment date if there is one and at the due
\* date otherwise, with the payment amount if outstanding = 0 and the
\* outstanding amount otherwise
C8_CashPolicy ==
  Reported =>
    /\ [i \in DOMAIN out.cash_df |-> out.cash_df[i].row]
         = SelectSeq(out.filtered_df,
                     LAMBDA r : \/ cash_option = "Both Paid and Unpaid"
                                \/ cash_option = "Unpaid Only" /\ r.outstanding_amount > 0
                                \/ cash_option = "Paid Only" /\ r.outstanding_amount = 0)
    /\ \A i \in DOMAIN out.cash_df :
         Let(out.cash_df[i], LAMBDA c :
           /\ cash_option = "Unpaid Only" =>
                /\ c.Expected_Payment = c.row.due_date
                /\ c.Cash_Amount = c.row.outstanding_amount
           /\ cash_option = "Paid Only" =>
                /\ c.Expected_Payment = c.row.payment_date
                /\ c.Cash_Amount = c.row.payment_amount
           /\ cash_option = "Both Paid and Unpaid" =>
                /\ c.row.payment_date # NaT => c.Expected_Payment = c.row.payment_date
                /\ c.row.payment_date = NaT => c.Expected_Payment = c.row.due_date
                /\ c.row.outstanding_amount = 0 => c.Cash_Amount = c.row.payment_amount
                /\ c.row.outstanding_amount # 0 => c.Cash_Amount = c.row.outstanding_amount)

\* under 'Both Paid and Unpaid', a row paid in full next to a partly paid row
\* that is forecast at its payment date with what is left of it
C8_Witness ==
  /\ cash_option = "Both Paid and Unpaid"
  /\ \E i, j \in DOMAIN out.cash_df :
       /\ out.cash_df[i].row.outstanding_amount = 0
       /\ out.cash_df[i].Cash_Amount = 100
       /\ out.cash_df[j].row.outstanding_amount = 60
       /\ out.cash_df[j].row.payment_date # NaT
       /\ out.cash_df[j].Expected_Payment = out.cash_df[j].row.payment_date
       /\ out.cash_df[j].Cash_Amount = 60

\* C9: a run whose cash policy keeps no row shows a warning and goes on: the
\* aging summary, the customer's aging summary, the total outstanding and the
\* exports of the full table and of the aging summary are produced
C9_EmptyForecastSkipsOnlyForecast ==
  out.outcome = "empty_forecast" =>
    /\ "warning: no invoices for cash forecast" \in out.messages
    /\ {"aging_summary", "total_outstanding", "export_full", "export_aging"}
         \subseteq out.produced
    /\ customers(out.filtered_df) # <<>> => "customer_aging" \in out.produced

ForecastTotal(df, co, b) == CashTotal(cash_forecast(create_cash_df(df, co), b))

\* C10: the total of the forecast under 'Both Paid and Unpaid' is the total
\* under 'Unpaid Only' plus the total under 'Paid Only', for every working
\* set, status filter and bucket
C10_BothIsUnpaidPlusPaid ==
  Reported =>
    ForecastTotal(out.filtered_df, "Both Paid and Unpaid", bucket)
      = ForecastTotal(out.filtered_df, "Unpaid Only", bucket)
        + ForecastTotal(out.filtered_df, "Paid Only", bucket)

====
